---- MODULE Spec2Model ----
(***************************************************************************)
(* A model of the fleece application (chenyuan99/fleece):                  *)
(*   - src/image_service.py      the image cache and its fallback chain    *)
(*   - src/pages/my_credit_cards.py   the user-card store and its page     *)
(*   - src/pages/credit_cards.py      the parallel image preload, and the  *)
(*                                    page of the card catalog             *)
(*   - src/fleece.py             the chat page and its session state       *)
(* Each part has its own specification over the shared variables; the      *)
(* variables of the other parts stay at their initial values.              *)
(***************************************************************************)
EXTENDS Integers, Sequences, FiniteSets, TLC

VARIABLES
    IMAGE_CACHE,         \* image_service.IMAGE_CACHE: url -> [ts, content]
    lru,                 \* functools.lru_cache of cached_image_fetch, least recent first
    DEFAULT_CARD_IMAGE,  \* 0 (the heap object made at import) or NoRef (None)
    heap,                \* PIL image objects by identity
    held,                \* the images a caller still holds: slot -> object or NoRef
    touched,             \* slot -> the caller drew on the image it holds there
    now,                 \* time.time(), in seconds
    ticks,               \* number of clock advances so far
    call,                \* the last display_card_image call, as the caller saw it
    lastOk,              \* history: url -> time and body of the last GET answered 200
    recency,             \* history: the URLs cached_image_fetch was called with, in the
                         \* order of the last time the lru_cache wrapper used each
    file,                \* user_cards.json: whether it exists, and its text
    loadCache,           \* the st.cache_data entry of load_user_cards
    user_cards,          \* the list user_cards at the end of the last script run
    displayed,           \* the list the last script run rendered
    sort_by,             \* the "Sort by" selectbox
    edit,                \* st.session_state['edit_card'] and ['edit_index']
    cards_page,          \* st.session_state.cards_page, Unset before it is created
    run,                 \* the last script run of the My Credit Cards page, as observed
    lastLoad,            \* the last call of load_user_cards, as observed
    pool,                \* the preload call in progress: its phase and arguments,
                         \* and (history) IMAGE_CACHE as it was when the call began
    tasks,               \* the futures of the pool, in submission order
    results,             \* the dict `results` of the preload call
    session_state,       \* st.session_state of the chat page: the keys present and
                         \* the value of each
    ui,                  \* the browser on the chat page: the page shown, the API-KEY
                         \* box, and the widgets the last run rendered
    chat,                \* the last interaction with the chat page, as observed
    annual_fee_filter,   \* the "Annual Fee" multiselect of the Credit Cards page
    reward_type_filter,  \* the "Reward Type" multiselect
    show_cards,          \* st.session_state.show_cards, Unset before it is created
    catalog_view         \* the last script run of the Credit Cards page, as observed

imgVars == <<IMAGE_CACHE, lru, DEFAULT_CARD_IMAGE, heap, held, touched, call, lastOk,
             recency>>
clockVars == <<now, ticks>>
cardVars == <<file, loadCache, user_cards, displayed, sort_by, edit, cards_page, run,
              lastLoad>>

poolVars == <<pool, tasks, results>>
chatVars == <<session_state, ui, chat>>
catalogVars == <<annual_fee_filter, reward_type_filter, show_cards, catalog_view>>
pageVars == <<chatVars, catalogVars>>

vars == <<imgVars, clockVars, cardVars, poolVars, pageVars>>

-----------------------------------------------------------------------------
(* Bounds of the model *)

\* clock advances in one behaviour
MaxTicks == 1
\* clock advances in one behaviour of the card store
MaxStoreTicks == 2
\* cards in the store when the page is opened: one more than a page holds
MaxStored == 4
\* functools.lru_cache(maxsize=32), scaled to the three URLs of the model
LruMaxsize == 2

(* Program constants *)

CACHE_EXPIRY == 3600
PlaceholderWidth == 340
PlaceholderHeight == 220

-----------------------------------------------------------------------------
(* Values *)

\* "" is the empty URL: requests.get("") raises MissingSchema
URLs == {"", "a", "b"}
NoneBytes == "None"
\* response bodies a server may send with status 200: valid images, bytes that are
\* no image, and no bytes at all
Bodies(url) == IF url = "a" THEN {"png1", "png2"} ELSE {"junk", ""}
Deltas == {1, CACHE_EXPIRY - 1, CACHE_EXPIRY, CACHE_EXPIRY + 1}
\* the two places where a caller keeps the images it was given, and the heap
\* object each place's image is (0 is the object made at import)
Slots == {1, 2}
NoSlot == 3
NoRef == -1
DefaultRef == 0
ObjIds == {DefaultRef} \cup Slots

NoImage == [kind |-> "None", bytes |-> NoneBytes, w |-> 0, h |-> 0, pix |-> "none"]
NoEntry == [ts |-> -1, content |-> NoneBytes]

\* what requests.get(url, timeout=5) can do
ExcResponse == [exc |-> TRUE, status |-> 0, body |-> NoneBytes]
NoResponse == [exc |-> FALSE, status |-> -1, body |-> NoneBytes]
Responses(url) ==
    IF url = "" THEN {ExcResponse}
    ELSE {ExcResponse, [exc |-> FALSE, status |-> 404, body |-> ""]}
         \cup {[exc |-> FALSE, status |-> 200, body |-> b] : b \in Bodies(url)}

\* Image.open(BytesIO(content)) succeeds
CanDecode(content) == content \in {"png1", "png2"}
\* Python truthiness of bytes / None
Truthy(content) == content # NoneBytes /\ content # ""

\* the drawing recipe of the placeholder
PlaceholderImage ==
    [kind |-> "placeholder", bytes |-> NoneBytes, w |-> PlaceholderWidth,
     h |-> PlaceholderHeight, pix |-> "orig"]
DecodedImage(content) ==
    [kind |-> "decoded", bytes |-> content, w |-> 1, h |-> 1, pix |-> "orig"]

-----------------------------------------------------------------------------
(* cached_image_fetch *)

\* a store that rebuilds the dict around the new entry
PutAlone(cache, url, entry) == [u \in {url} |-> entry]

\* cache[url] = entry
Put(cache, url, entry) ==
    [u \in DOMAIN cache \cup {url} |-> IF u = url THEN entry ELSE cache[u]]

\* a cache test that ignores the age of the entry
CacheHitAnyAge(cache, url, t) == url \in DOMAIN cache

\* if image_url in IMAGE_CACHE: ... if time.time() - timestamp < CACHE_EXPIRY
CacheHit(cache, url, t) ==
    /\ url \in DOMAIN cache
    /\ t - cache[url].ts < CACHE_EXPIRY

\* the body of cached_image_fetch: the value returned, the IMAGE_CACHE left, the
\* number of HTTP GETs issued and whether an exception leaves the function
FetchNoExcept(cache, url, t, resp) ==
    IF CacheHit(cache, url, t)
    THEN [ret |-> cache[url].content, cache |-> cache, gets |-> 0, raised |-> FALSE]
    ELSE IF resp.exc
    THEN [ret |-> NoneBytes, cache |-> cache, gets |-> 1, raised |-> TRUE]
    ELSE IF resp.status = 200
    THEN [ret |-> resp.body,
          cache |-> Put(cache, url, [ts |-> t, content |-> resp.body]),
          gets |-> 1, raised |-> FALSE]
    ELSE [ret |-> NoneBytes, cache |-> cache, gets |-> 1, raised |-> FALSE]

FetchNoStore(cache, url, t, resp) ==
    IF CacheHit(cache, url, t)
    THEN [ret |-> cache[url].content, cache |-> cache, gets |-> 0, raised |-> FALSE]
    ELSE IF resp.exc \/ resp.status # 200
    THEN [ret |-> NoneBytes, cache |-> cache, gets |-> 1, raised |-> FALSE]
    ELSE [ret |-> resp.body, cache |-> cache, gets |-> 1, raised |-> FALSE]

\* a fetch that tries the GET a second time when the first did not answer 200
FetchRetry(cache, url, t, resp) ==
    IF CacheHit(cache, url, t)
    THEN [ret |-> cache[url].content, cache |-> cache, gets |-> 0, raised |-> FALSE]
    ELSE IF ~resp.exc /\ resp.status = 200
    THEN [ret |-> resp.body,
          cache |-> Put(cache, url, [ts |-> t, content |-> resp.body]),
          gets |-> 1, raised |-> FALSE]
    ELSE [ret |-> NoneBytes, cache |-> cache, gets |-> 2, raised |-> FALSE]

fetch_body(cache, url, t, resp) ==
    IF CacheHit(cache, url, t)
    THEN [ret |-> cache[url].content, cache |-> cache, gets |-> 0, raised |-> FALSE]
    ELSE IF resp.exc
    THEN \* except Exception: logged, falls through to return None
         [ret |-> NoneBytes, cache |-> cache, gets |-> 1, raised |-> FALSE]
    ELSE IF resp.status = 200
    THEN [ret |-> resp.body,
          cache |-> Put(cache, url, [ts |-> t, content |-> resp.body]),
          gets |-> 1, raised |-> FALSE]
    ELSE [ret |-> NoneBytes, cache |-> cache, gets |-> 1, raised |-> FALSE]

\* functools.lru_cache(maxsize): the memo as a sequence of [key, val], least
\* recently used first
LruKeys(memo) == {memo[i].key : i \in 1..Len(memo)}
LruIndex(memo, url) == CHOOSE i \in 1..Len(memo) : memo[i].key = url
LruWithout(memo, i) ==
    [j \in 1..(Len(memo) - 1) |-> IF j < i THEN memo[j] ELSE memo[j + 1]]
\* a full memo that makes room by dropping its most recently used entry
LruInsertDropNewest(memo, url, val) ==
    Append(IF Len(memo) >= LruMaxsize THEN SubSeq(memo, 1, Len(memo) - 1) ELSE memo,
           [key |-> url, val |-> val])

\* a memo that does not keep None results
LruInsertSkipNone(memo, url, val) ==
    IF val = NoneBytes THEN memo
    ELSE IF Len(memo) >= LruMaxsize
    THEN Append(Tail(memo), [key |-> url, val |-> val])
    ELSE Append(memo, [key |-> url, val |-> val])

LruInsert(memo, url, val) ==
    LET full == Append(memo, [key |-> url, val |-> val])
    IN  IF Len(full) > LruMaxsize THEN Tail(full) ELSE full

\* the wrapper used url now: it becomes the most recent one
Used(rec, url) == Append(SelectSeq(rec, LAMBDA u : u # url), url)

\* a call of the decorated cached_image_fetch; from tells what served the call:
\* the memo of lru_cache, IMAGE_CACHE, or the HTTP GET
cached_image_fetch(memo, cache, url, t, resp) ==
    IF url \in LruKeys(memo)
    THEN LET i == LruIndex(memo, url)
         IN  [ret |-> memo[i].val, cache |-> cache, gets |-> 0, raised |-> FALSE,
              memo |-> Append(LruWithout(memo, i), memo[i]), from |-> "memo"]
    ELSE LET f == fetch_body(cache, url, t, resp)
         IN  [ret |-> f.ret, cache |-> f.cache, gets |-> f.gets, raised |-> f.raised,
              memo |-> IF f.raised THEN memo ELSE LruInsert(memo, url, f.ret),
              from |-> IF f.gets = 0 THEN "cache" ELSE "get"]

-----------------------------------------------------------------------------
(* display_card_image *)

\* return DEFAULT_CARD_IMAGE.copy(): a new object
ReturnDefaultItself(default, id) == [ref |-> default, new |-> FALSE]

ReturnDefault(default, id) == [ref |-> id, new |-> TRUE]

DisplayNoRegen(f, default, regen, id, hp) ==
    IF f.raised
    THEN [ref |-> NoRef, new |-> FALSE, img |-> NoImage, regen |-> "unused"]
    ELSE IF Truthy(f.ret) /\ CanDecode(f.ret)
    THEN [ref |-> id, new |-> TRUE, img |-> DecodedImage(f.ret), regen |-> "unused"]
    ELSE IF default # NoRef
    THEN [ref |-> id, new |-> TRUE, img |-> hp[default], regen |-> "unused"]
    ELSE [ref |-> NoRef, new |-> FALSE, img |-> NoImage, regen |-> "unused"]

\* what display_card_image returns: ref is the object returned (NoRef for None),
\* img its contents, new whether the call made the object, regen the outcome of the
\* on-demand generation of the placeholder when the call came to it
display_result(f, default, regen, id, hp) ==
    IF f.raised
    THEN [ref |-> NoRef, new |-> FALSE, img |-> NoImage, regen |-> "unused"]
    ELSE IF Truthy(f.ret) /\ CanDecode(f.ret)
    THEN [ref |-> id, new |-> TRUE, img |-> DecodedImage(f.ret), regen |-> "unused"]
    ELSE IF default # NoRef
    THEN LET r == ReturnDefault(default, id)
         IN  [ref |-> r.ref, new |-> r.new, img |-> hp[default], regen |-> "unused"]
    ELSE IF regen
    THEN [ref |-> id, new |-> TRUE, img |-> PlaceholderImage, regen |-> "ok"]
    ELSE [ref |-> NoRef, new |-> FALSE, img |-> NoImage, regen |-> "failed"]

\* one call display_card_image(url); the caller keeps the image in `slot`, or
\* drops it at once when slot is NoSlot
Display(url, slot, resp, regen) ==
    LET f == cached_image_fetch(lru, IMAGE_CACHE, url, now, resp)
        r == display_result(f, DEFAULT_CARD_IMAGE, regen, slot, heap)
        keep == slot \in Slots
    IN  /\ IMAGE_CACHE' = f.cache
        /\ lru' = f.memo
        /\ heap' = IF keep /\ r.new THEN [heap EXCEPT ![slot] = r.img] ELSE heap
        /\ held' = IF keep THEN [held EXCEPT ![slot] = r.ref] ELSE held
        /\ touched' = IF keep THEN [touched EXCEPT ![slot] = FALSE] ELSE touched
        /\ call' = [url |-> url, gets |-> f.gets,
                    resp |-> IF f.gets = 1 THEN resp ELSE NoResponse,
                    content |-> f.ret, raised |-> f.raised,
                    ref |-> r.ref, img |-> r.img, at |-> now,
                    before |-> lastOk[url], regen |-> r.regen, from |-> f.from]
        /\ recency' = IF f.raised THEN recency ELSE Used(recency, url)
        /\ lastOk' = IF f.gets = 1 /\ ~resp.exc /\ resp.status = 200
                     THEN [lastOk EXCEPT ![url] = [ts |-> now, content |-> resp.body]]
                     ELSE lastOk
        /\ UNCHANGED <<DEFAULT_CARD_IMAGE, clockVars, cardVars, poolVars, pageVars>>

\* a page shows the image and keeps no reference to it
DisplayCardImage ==
    \E url \in URLs, regen \in BOOLEAN :
        \E resp \in Responses(url) : Display(url, NoSlot, resp, regen)

\* a caller keeps the image it was given
DisplayAndKeep ==
    \E url \in URLs, slot \in Slots, regen \in BOOLEAN :
        \E resp \in Responses(url) : Display(url, slot, resp, regen)

\* the caller draws on an image it was given
Mutate ==
    \E slot \in Slots :
        /\ held[slot] # NoRef
        /\ heap[held[slot]].pix = "orig"
        /\ heap' = [heap EXCEPT ![held[slot]].pix = "drawn"]
        /\ touched' = [touched EXCEPT ![slot] = TRUE]
        /\ UNCHANGED <<IMAGE_CACHE, lru, DEFAULT_CARD_IMAGE, held, call, lastOk,
                       recency, clockVars, cardVars, poolVars, pageVars>>

\* time passes
Advance(d) ==
    /\ ticks < MaxTicks
    /\ now' = now + d
    /\ ticks' = ticks + 1
    /\ UNCHANGED <<imgVars, cardVars, poolVars, pageVars>>

Tick == \E d \in Deltas : Advance(d)

NoCall ==
    [url |-> "", gets |-> 0, resp |-> NoResponse, content |-> NoneBytes,
     raised |-> FALSE, ref |-> NoRef, img |-> NoImage, at |-> -1, before |-> NoEntry,
     regen |-> "unused", from |-> "none"]

\* the module after import: the placeholder was generated, or its generation failed
\* and left DEFAULT_CARD_IMAGE at None
ImgInit ==
    /\ IMAGE_CACHE = << >>
    /\ lru = << >>
    /\ DEFAULT_CARD_IMAGE \in {DefaultRef, NoRef}
    /\ heap = [i \in ObjIds |->
                 IF i = DefaultRef /\ DEFAULT_CARD_IMAGE = DefaultRef
                 THEN PlaceholderImage ELSE NoImage]
    /\ held = [s \in Slots |-> NoRef]
    /\ touched = [s \in Slots |-> FALSE]
    /\ call = NoCall
    /\ lastOk = [u \in URLs |-> NoEntry]
    /\ recency = << >>

-----------------------------------------------------------------------------
(* The user-card store of pages/my_credit_cards.py *)

\* cards a behaviour may hold at once
MaxCards == 2

\* st.cache_data(ttl=300)
LOAD_TTL == 300
cards_per_page == 3

\* the keys of a card, in the order add_card_form builds the dict
KeyOrder ==
    <<"name", "last_four", "annual_fee", "credit_limit", "rewards", "expiration",
      "image_url", "date_added">>
\* the keys whose values are Python ints; the others hold strings
NumKeys == {"credit_limit"}

(* JSON text, as its sequence of tokens *)

Tok(t, s, n) == [t |-> t, s |-> s, n |-> n]
LBRACKET == Tok("[", "", 0)
RBRACKET == Tok("]", "", 0)
LBRACE == Tok("{", "", 0)
RBRACE == Tok("}", "", 0)
COMMA == Tok(",", "", 0)
COLON == Tok(":", "", 0)
StrTok(s) == Tok("str", s, 0)
NumTok(n) == Tok("num", "", n)

\* json.dump(cards, f, indent=2): "[", the objects separated by ",", "]"; an object
\* is "{", its members key ":" value in the order of the dict's keys, separated by
\* ",", "}". Every card has the keys of KeyOrder, so every object has ObjLen tokens.
ObjLen == 4 * Len(KeyOrder) + 1

DumpCard(card) ==
    [p \in 1..ObjLen |->
        IF p = 1 THEN LBRACE
        ELSE IF p = ObjLen THEN RBRACE
        ELSE LET k == KeyOrder[((p - 2) \div 4) + 1]
                 r == (p - 2) % 4
             IN  IF r = 0 THEN StrTok(k)
                 ELSE IF r = 1 THEN COLON
                 ELSE IF r = 3 THEN COMMA
                 ELSE IF k \in NumKeys THEN NumTok(card[k]) ELSE StrTok(card[k])]

json_dump(cards) ==
    IF Len(cards) = 0 THEN <<LBRACKET, RBRACKET>>
    ELSE [p \in 1..(Len(cards) * (ObjLen + 1) + 1) |->
            IF p = 1 THEN LBRACKET
            ELSE IF p = Len(cards) * (ObjLen + 1) + 1 THEN RBRACKET
            ELSE LET item == ((p - 2) \div (ObjLen + 1)) + 1
                     r == (p - 2) % (ObjLen + 1)
                 IN  IF r = ObjLen THEN COMMA ELSE DumpCard(cards[item])[r + 1]]

\* json.load(f) of an array of flat objects. The text parses when it is "[" "]",
\* or "[", objects separated by ",", "]"; an object is "{" "}", or "{", members
\* key ":" value separated by ",", "}". json.load raises JSONDecodeError on any
\* other text.
Opens(toks) == {p \in 1..Len(toks) : toks[p] = LBRACE}
Closes(toks) == {p \in 1..Len(toks) : toks[p] = RBRACE}
\* the j-th smallest element of a set of positions
Nth(S, j) == CHOOSE p \in S : Cardinality({q \in S : q < p}) = j - 1

\* the tokens o..c are one object
IsObject(toks, o, c) ==
    /\ o < c
    /\ \/ c = o + 1
       \/ /\ (c - o) % 4 = 0
          /\ \A p \in (o + 1)..(c - 1) :
                 IF (p - o - 1) % 4 = 0 THEN toks[p].t = "str"
                 ELSE IF (p - o - 1) % 4 = 1 THEN toks[p] = COLON
                 ELSE IF (p - o - 1) % 4 = 2 THEN toks[p].t \in {"str", "num"}
                 ELSE toks[p] = COMMA

\* the Python dict of the object at o..c: a number token gives an int, a string
\* token a str, and a repeated key keeps its last value
ObjectOf(toks, o, c) ==
    LET keyPos == {p \in (o + 1)..(c - 1) : (p - o - 1) % 4 = 0}
    IN  [k \in {toks[p].s : p \in keyPos} |->
            LET last == CHOOSE p \in keyPos :
                            /\ toks[p].s = k
                            /\ \A q \in keyPos : toks[q].s = k => q <= p
            IN  IF toks[last + 2].t = "num" THEN toks[last + 2].n
                ELSE toks[last + 2].s]

\* the array whose objects open at `opens` and close at `closes`
ParseArray(toks, opens, closes) ==
    LET n == Len(toks)
        k == Cardinality(opens)
        ok == /\ n >= 2
              /\ toks[1] = LBRACKET
              /\ toks[n] = RBRACKET
              /\ IF k = 0 THEN n = 2
                 ELSE /\ Cardinality(closes) = k
                      /\ Nth(opens, 1) = 2
                      /\ Nth(closes, k) = n - 1
                      /\ \A j \in 1..k :
                             IsObject(toks, Nth(opens, j), Nth(closes, j))
                      /\ \A j \in 1..(k - 1) :
                             /\ Nth(opens, j + 1) = Nth(closes, j) + 2
                             /\ toks[Nth(closes, j) + 1] = COMMA
    IN  IF ok
        THEN [ok |-> TRUE,
              val |-> [j \in 1..k |-> ObjectOf(toks, Nth(opens, j), Nth(closes, j))]]
        ELSE [ok |-> FALSE, val |-> << >>]

json_load(toks) ==
    CHOOSE r \in {ParseArray(toks, o, c) : o \in {Opens(toks)}, c \in {Closes(toks)}} :
        TRUE

(* The file, load_user_cards and save_user_cards *)

NoFile == [exists |-> FALSE, toks |-> << >>]
NoCache == [valid |-> FALSE, value |-> << >>, error |-> FALSE, at |-> 0]

\* the body of load_user_cards: what it returns, whether it called st.error, and
\* how it found the file
ReadNoExcept(f) ==
    IF f.exists
    THEN LET r == json_load(f.toks)
         IN  IF r.ok
             THEN [ret |-> r.val, error |-> FALSE, raised |-> FALSE, state |-> "valid"]
             ELSE [ret |-> << >>, error |-> FALSE, raised |-> TRUE, state |-> "corrupt"]
    ELSE [ret |-> << >>, error |-> FALSE, raised |-> FALSE, state |-> "absent"]

read_cards(f) ==
    IF f.exists
    THEN LET r == json_load(f.toks)
         IN  IF r.ok
             THEN [ret |-> r.val, error |-> FALSE, raised |-> FALSE, state |-> "valid"]
             ELSE [ret |-> << >>, error |-> TRUE, raised |-> FALSE, state |-> "corrupt"]
    ELSE [ret |-> << >>, error |-> FALSE, raised |-> FALSE, state |-> "absent"]

\* a call of load_user_cards under st.cache_data(ttl=300): an entry younger than
\* the ttl is returned (with its st.error replayed) without looking at the file
load_user_cards(cache, f, t) ==
    IF cache.valid /\ t - cache.at < LOAD_TTL
    THEN [ret |-> cache.value, error |-> cache.error, raised |-> FALSE,
          state |-> "unread", cache |-> cache, file |-> f]
    ELSE LET r == read_cards(f)
         IN  [ret |-> r.ret, error |-> r.error, raised |-> r.raised, state |-> r.state,
              cache |-> [valid |-> TRUE, value |-> r.ret, error |-> r.error, at |-> t],
              file |-> f]

\* what the write of save_user_cards can do: succeed, fail in open() before the
\* file is touched, or fail after open(..., 'w') truncated the file, with nothing
\* or all but the last token written
WriteOutcomes == {"ok", "open fails", "write fails at once", "write fails at the end"}

Written(text, w) ==
    IF w = "ok" THEN text
    ELSE IF w = "write fails at once" THEN << >>
    ELSE SubSeq(text, 1, Len(text) - 1)

SaveRaises(f, cards, w) ==
    IF w = "ok"
    THEN [ok |-> TRUE, error |-> FALSE, raised |-> FALSE, writes |-> 1,
          file |-> [exists |-> TRUE, toks |-> json_dump(cards)]]
    ELSE [ok |-> FALSE, error |-> FALSE, raised |-> TRUE, writes |-> 1, file |-> f]

save_user_cards(f, cards, w) ==
    IF w = "open fails"
    THEN [ok |-> FALSE, error |-> TRUE, raised |-> FALSE, writes |-> 1, file |-> f]
    ELSE [ok |-> w = "ok", error |-> w # "ok", raised |-> FALSE, writes |-> 1,
          file |-> [exists |-> TRUE, toks |-> Written(json_dump(cards), w)]]

\* what the three callers do with the value save_user_cards returned: `clears` is
\* TRUE for Remove Card, the one caller that calls load_user_cards.clear()
IgnoreSaveResult(ok, clears) == [success |-> TRUE, cleared |-> clears, reran |-> TRUE]

after_save(ok, clears) == [success |-> ok, cleared |-> ok /\ clears, reran |-> ok]

(* The page *)

Unset == -1
SortOptions == {"Card Name", "Annual Fee", "Credit Limit", "Date Added"}

\* what the user can type into the Add Card form
FormInputs ==
    {[name |-> "Test Card", last_four |-> "", annual_fee |-> "$0",
      credit_limit |-> 5000, rewards |-> "", expiration |-> "", image_url |-> ""],
     [name |-> "Amex Gold", last_four |-> "1234", annual_fee |-> "$250",
      credit_limit |-> 10000, rewards |-> "4x", expiration |-> "05/28",
      image_url |-> "a"]}
\* what the user can type into the edit form: it has no image URL field
EditInputs ==
    {[name |-> "Amex Gold", last_four |-> "1234", annual_fee |-> "$250",
      credit_limit |-> 10000, rewards |-> "4x", expiration |-> "05/28"]}

\* datetime.datetime.now().strftime("%Y-%m-%d")
Dates == <<"2025-05-01", "2025-05-02">>
SecondsPerDay == 86400
DateOf(t) == Dates[(t \div SecondsPerDay) + 1]

NoCard ==
    [name |-> "", last_four |-> "", annual_fee |-> "", credit_limit |-> 0,
     rewards |-> "", expiration |-> "", image_url |-> "", date_added |-> ""]
NoEdit == [set |-> FALSE, card |-> NoCard, index |-> 0]

\* the dict add_card_form builds
new_card(inp, t) ==
    [name |-> inp.name, last_four |-> inp.last_four, annual_fee |-> inp.annual_fee,
     credit_limit |-> inp.credit_limit, rewards |-> inp.rewards,
     expiration |-> inp.expiration, image_url |-> inp.image_url,
     date_added |-> DateOf(t)]

\* the six assignments of edit_card_form
edited_card(card, inp) ==
    [card EXCEPT !.name = inp.name, !.last_four = inp.last_four,
                 !.annual_fee = inp.annual_fee, !.credit_limit = inp.credit_limit,
                 !.rewards = inp.rewards, !.expiration = inp.expiration]

\* the sort keys: str comparison of names and dates, int(fee.replace('$', ''))
NameRank(name) == IF name = "Amex Gold" THEN 1 ELSE IF name = "Test Card" THEN 2 ELSE 0
FeeValue(fee) == IF fee = "$250" THEN 250 ELSE IF fee = "$95" THEN 95 ELSE 0
DateRank(d) == CHOOSE i \in 1..Len(Dates) : Dates[i] = d
SortKey(sort, card) ==
    IF sort = "Card Name" THEN NameRank(card.name)
    ELSE IF sort = "Annual Fee" THEN FeeValue(card.annual_fee)
    ELSE IF sort = "Credit Limit" THEN 0 - card.credit_limit
    ELSE 0 - DateRank(card.date_added)

\* sorted(user_cards, key=..., reverse=...): the sort is stable, so the card at
\* index i comes after the cards with a smaller key and the earlier cards with
\* the same key
SortedPosition(cards, sort, i) ==
    1 + Cardinality({j \in 1..Len(cards) :
            \/ SortKey(sort, cards[j]) < SortKey(sort, cards[i])
            \/ SortKey(sort, cards[j]) = SortKey(sort, cards[i]) /\ j < i})

sorted_cards(cards, sort) ==
    [p \in 1..Len(cards) |->
        cards[CHOOSE i \in 1..Len(cards) : SortedPosition(cards, sort, i) = p]]

\* list.remove(card): the first element equal to card goes
list_remove(cards, card) ==
    LET i == CHOOSE j \in 1..Len(cards) :
                 cards[j] = card /\ \A m \in 1..(j - 1) : cards[m] # card
    IN  SubSeq(cards, 1, i - 1) \o SubSeq(cards, i + 1, Len(cards))

\* the indexes (from 0) of the cards the page shows
Min(a, b) == IF a < b THEN a ELSE b
PageOf(page) == IF page = Unset THEN 0 ELSE page
Shown(cards, page) ==
    {i \in 0..(Len(cards) - 1) :
        /\ PageOf(page) * cards_per_page <= i
        /\ i < Min(PageOf(page) * cards_per_page + cards_per_page, Len(cards))}

\* how a file reads, and whether it holds no card
FileState(f) ==
    IF ~f.exists THEN "absent" ELSE IF json_load(f.toks).ok THEN "valid" ELSE "corrupt"
EmptyStore(f) == ~f.exists \/ f.toks = <<LBRACKET, RBRACKET>>

\* a call of load_user_cards on file f as observed: how the call found the file
\* ("unread" when it did not look), how the file was, what came back
LoadSeen(L, f) ==
    [state |-> L.state, found |-> FileState(f), ret |-> L.ret, error |-> L.error,
     raised |-> L.raised, unchanged |-> L.file = f, at |-> now]

\* the end of a script run that loaded L, left `mutated` in user_cards and called
\* save_user_cards with result S (NoSave when it did not), the caller acting as A:
\* st.rerun() starts the script again, and the new run loads again
NoSave ==
    [ok |-> FALSE, error |-> FALSE, raised |-> FALSE, writes |-> 0, file |-> NoFile]
NoAfter == [success |-> FALSE, cleared |-> FALSE, reran |-> FALSE]

Finish(op, L, mutated, S, A, card, session, rerun) ==
    LET saved == S.writes > 0
        f2 == IF saved THEN S.file ELSE file
        c1 == IF A.cleared THEN NoCache ELSE L.cache
        again == (A.reran \/ rerun) /\ ~S.raised
    IN  \E L2 \in {IF again THEN load_user_cards(c1, f2, now) ELSE L} :
            /\ file' = f2
            /\ loadCache' = L2.cache
            /\ user_cards' = IF again THEN L2.ret ELSE mutated
            /\ displayed' = IF again THEN L2.ret ELSE L.ret
            /\ cards_page' = IF cards_page = Unset /\ (L.ret # << >> \/ L2.ret # << >>)
                             THEN 0 ELSE cards_page
            /\ edit' = session
            /\ run' = [op |-> op,
                       saved |-> IF ~saved THEN "none"
                                 ELSE IF S.ok THEN "ok" ELSE "failed",
                       error |-> S.error, raised |-> S.raised, writes |-> S.writes,
                       success |-> A.success, cleared |-> A.cleared, reran |-> again,
                       fresh |-> EmptyStore(file), loaded |-> L.ret,
                       mutated |-> mutated, card |-> card]
            /\ lastLoad' = LoadSeen(L2, IF again THEN f2 ELSE file)

\* the page is opened or redrawn with no button pressed
View ==
    \E L \in {load_user_cards(loadCache, file, now)} :
        /\ Finish("view", L, L.ret, NoSave, NoAfter, NoCard, edit, FALSE)
        /\ UNCHANGED <<sort_by, imgVars, clockVars, poolVars, pageVars>>

\* another entry of "Sort by" is selected
ChangeSort ==
    \E s \in SortOptions \ {sort_by} :
        \E L \in {load_user_cards(loadCache, file, now)} :
            /\ run.op # "none"
            /\ displayed # << >>
            /\ sort_by' = s
            /\ Finish("sort", L, L.ret, NoSave, NoAfter, NoCard, edit, FALSE)
            /\ UNCHANGED <<imgVars, clockVars, poolVars, pageVars>>

\* "Add Card" is submitted
AddCard ==
    \E inp \in FormInputs, w \in WriteOutcomes :
        \E L \in {load_user_cards(loadCache, file, now)} :
            \E mutated \in {Append(L.ret, new_card(inp, now))} :
                \E S \in {save_user_cards(file, mutated, w)} :
                    /\ run.op # "none"
                    /\ Len(L.ret) < MaxCards
                    /\ Finish("add", L, mutated, S, after_save(S.ok, FALSE),
                              new_card(inp, now), edit, FALSE)
                    /\ UNCHANGED <<sort_by, imgVars, clockVars, poolVars, pageVars>>

\* "Remove Card" of the card shown at index i is pressed
RemoveCard ==
    \E i \in Shown(displayed, cards_page), w \in WriteOutcomes :
        \E L \in {load_user_cards(loadCache, file, now)} :
            /\ i \in Shown(L.ret, cards_page)
            /\ \E card \in {sorted_cards(L.ret, sort_by)[i + 1]} :
                  \E mutated \in {list_remove(L.ret, card)} :
                      \E S \in {save_user_cards(file, mutated, w)} :
                          Finish("remove", L, mutated, S, after_save(S.ok, TRUE),
                                 card, edit, FALSE)
            /\ UNCHANGED <<sort_by, imgVars, clockVars, poolVars, pageVars>>

\* "Edit Details" of the card shown at index i is pressed
EditDetails ==
    \E i \in Shown(displayed, cards_page) :
        \E L \in {load_user_cards(loadCache, file, now)} :
            /\ i \in Shown(L.ret, cards_page)
            /\ \E card \in {sorted_cards(L.ret, sort_by)[i + 1]} :
                  Finish("select", L, L.ret, NoSave, NoAfter, card,
                         [set |-> TRUE, card |-> card, index |-> i], TRUE)
            /\ UNCHANGED <<sort_by, imgVars, clockVars, poolVars, pageVars>>

\* "Save Changes" of the edit form is submitted
SaveChanges ==
    \E inp \in EditInputs, w \in WriteOutcomes :
        \E L \in {load_user_cards(loadCache, file, now)} :
            /\ edit.set
            /\ displayed # << >>
            /\ L.ret # << >>
            /\ IF edit.index + 1 > Len(L.ret)
               THEN \* user_cards[edit_index] raises IndexError: the run ends there
                    /\ w = "ok"
                    /\ Finish("edit", L, L.ret, [NoSave EXCEPT !.raised = TRUE],
                              NoAfter, NoCard, edit, FALSE)
               ELSE \E card \in {edited_card(L.ret[edit.index + 1], inp)} :
                      \E mutated \in {[L.ret EXCEPT ![edit.index + 1] = card]} :
                        \E S \in {save_user_cards(file, mutated, w)} :
                          Finish("edit", L, mutated, S, after_save(S.ok, FALSE), card,
                                 IF after_save(S.ok, FALSE).success THEN NoEdit
                                 ELSE edit, FALSE)
            /\ UNCHANGED <<sort_by, imgVars, clockVars, poolVars, pageVars>>

CardDeltas == {LOAD_TTL - 1, LOAD_TTL + 1}
TickCards == \E d \in CardDeltas : Advance(d)

\* the same clock, let run long enough for the cache to expire twice
TickStore ==
    \E d \in CardDeltas :
        /\ ticks < MaxStoreTicks
        /\ now' = now + d
        /\ ticks' = ticks + 1
        /\ UNCHANGED <<imgVars, cardVars, poolVars, pageVars>>

NoRun ==
    [op |-> "none", saved |-> "none", error |-> FALSE, raised |-> FALSE, writes |-> 0,
     success |-> FALSE, cleared |-> FALSE, reran |-> FALSE, fresh |-> TRUE,
     loaded |-> << >>, mutated |-> << >>, card |-> NoCard]
NoLoad ==
    [state |-> "none", found |-> "absent", ret |-> << >>, error |-> FALSE,
     raised |-> FALSE, unchanged |-> TRUE, at |-> 0]

\* before the page is first opened: no card file, nothing cached
CardInit ==
    /\ file = NoFile
    /\ loadCache = NoCache
    /\ user_cards = << >>
    /\ displayed = << >>
    /\ sort_by = "Card Name"
    /\ edit = NoEdit
    /\ cards_page = Unset
    /\ run = NoRun
    /\ lastLoad = NoLoad

\* "<- Previous" (delta -1) or "Next ->" (delta 1) is pressed: the run loads,
\* changes cards_page and calls st.rerun(), and the new run loads and draws
Turn(op, delta) ==
    \E L \in {load_user_cards(loadCache, file, now)} :
        \E L2 \in {load_user_cards(L.cache, file, now)} :
            /\ run.op # "none"
            /\ L.ret # << >>
            /\ cards_page' = PageOf(cards_page) + delta
            /\ loadCache' = L2.cache
            /\ user_cards' = L2.ret
            /\ displayed' = L2.ret
            /\ run' = [NoRun EXCEPT !.op = op, !.reran = TRUE, !.fresh = EmptyStore(file),
                                    !.loaded = L.ret, !.mutated = L.ret]
            /\ lastLoad' = LoadSeen(L2, file)
            /\ UNCHANGED <<file, edit, sort_by, imgVars, clockVars, poolVars, pageVars>>

\* the button is drawn when end_idx < len(sorted_cards)
HasNext(cards, page) ==
    Min(PageOf(page) * cards_per_page + cards_per_page, Len(cards)) < Len(cards)

NextPage ==
    /\ HasNext(displayed, cards_page)
    /\ HasNext(load_user_cards(loadCache, file, now).ret, cards_page)
    /\ Turn("next", 1)

PrevPage ==
    /\ displayed # << >>
    /\ PageOf(cards_page) > 0
    /\ Turn("previous", -1)

\* a store written by earlier sessions: n cards in their order of addition
StoredCard(k) ==
    new_card(CHOOSE inp \in FormInputs : (inp.name = "Test Card") <=> (k % 2 = 1),
             (((k - 1) \div 2) % 2) * SecondsPerDay)
StoredCards(n) == [k \in 1..n |-> StoredCard(k)]

\* the page is opened on a store of up to MaxStored cards
PagingInit ==
    /\ \E n \in 1..MaxStored :
           file = [exists |-> TRUE, toks |-> json_dump(StoredCards(n))]
    /\ loadCache = NoCache
    /\ user_cards = << >>
    /\ displayed = << >>
    /\ sort_by = "Card Name"
    /\ edit = NoEdit
    /\ cards_page = Unset
    /\ run = NoRun
    /\ lastLoad = NoLoad

ImgIdle ==
    /\ IMAGE_CACHE = << >>
    /\ lru = << >>
    /\ DEFAULT_CARD_IMAGE = DefaultRef
    /\ heap = [i \in ObjIds |-> IF i = DefaultRef THEN PlaceholderImage ELSE NoImage]
    /\ held = [s \in Slots |-> NoRef]
    /\ touched = [s \in Slots |-> FALSE]
    /\ call = NoCall
    /\ lastOk = [u \in URLs |-> NoEntry]
    /\ recency = << >>

-----------------------------------------------------------------------------
(* The parallel preload of pages/credit_cards.py and pages/my_credit_cards.py *)

\* max_cards=5 (and the max_workers=5 that gives every submitted URL its own
\* worker), scaled to the card lists of the model
MaxPreloadCards == 2
\* preload calls in one behaviour
MaxPreloadCalls == 1

\* the image_url of the cards handed to the preload, in order
PoolCardLists ==
    {<< >>, <<"a">>, <<"">>, <<"a", "b">>, <<"b", "a">>, <<"a", "a">>,
     <<"", "a">>, <<"a", "b", "a">>, <<"b", "", "a">>}
Variants == {"catalog", "my"}

\* urls = [card['image_url'] for card in cards[:max_cards]], which
\* preload_my_card_images filters with `if card.get('image_url')`
preload_urls(variant, cards) ==
    LET first == SubSeq(cards, 1, Min(Len(cards), MaxPreloadCards))
    IN  IF variant = "my" THEN SelectSeq(first, LAMBDA u : u # "") ELSE first

\* executor.submit(display_card_image, url)
NewTask(url) ==
    [url |-> url, pc |-> "lookup", content |-> NoneBytes, gets |-> 0,
     img |-> NoImage, order |-> 0]

\* the futures as_completed has yielded so far; order is the place of a future in
\* the order of yielding, 0 before it is yielded
Yielded(ts) == {j \in 1..Len(ts) : ts[j].order > 0}

\* the key under which the result of the i-th future is stored
UrlBySubmissionOrder(ts, i) == ts[Cardinality(Yielded(ts)) + 1].url

future_to_url(ts, i) == ts[i].url

\* what display_card_image makes of the bytes cached_image_fetch returned
ImageOf(content, regen) ==
    display_result([ret |-> content, raised |-> FALSE], DEFAULT_CARD_IMAGE, regen,
                   NoSlot, heap).img

Running(i) == pool.phase = "running" /\ i \in 1..Len(tasks)

\* preload_card_images(cards) / preload_my_card_images(cards) is called: one
\* future per URL, each started at once
Preload ==
    \E variant \in Variants, cards \in PoolCardLists :
        \E urls \in {preload_urls(variant, cards)} :
            /\ pool.phase # "running"
            /\ pool.calls < MaxPreloadCalls
            /\ pool' = [phase |-> "running", variant |-> variant, cards |-> cards,
                        calls |-> pool.calls + 1, cache0 |-> IMAGE_CACHE]
            /\ tasks' = [i \in 1..Len(urls) |-> NewTask(urls[i])]
            /\ results' = << >>
            /\ UNCHANGED <<imgVars, clockVars, cardVars, pageVars>>

\* a worker enters the lru_cache wrapper: a memoized URL returns at once, and the
\* worker goes on to decode
Lookup ==
    \E i \in 1..Len(tasks), regen \in BOOLEAN :
        /\ Running(i)
        /\ tasks[i].pc = "lookup"
        /\ IF tasks[i].url \in LruKeys(lru)
           THEN \E f \in {cached_image_fetch(lru, IMAGE_CACHE, tasks[i].url, now,
                                             NoResponse)} :
                    /\ lru' = f.memo
                    /\ recency' = Used(recency, tasks[i].url)
                    /\ tasks' = [tasks EXCEPT ![i].pc = "done", ![i].content = f.ret,
                                              ![i].img = ImageOf(f.ret, regen)]
           ELSE /\ regen
                /\ UNCHANGED <<lru, recency>>
                /\ tasks' = [tasks EXCEPT ![i].pc = "check"]
        /\ UNCHANGED <<IMAGE_CACHE, DEFAULT_CARD_IMAGE, heap, held, touched, call,
                       lastOk, clockVars, cardVars, pool, results, pageVars>>

\* the worker reads IMAGE_CACHE and tests the age of the entry
CheckCache ==
    \E i \in 1..Len(tasks) :
        /\ Running(i)
        /\ tasks[i].pc = "check"
        /\ tasks' = IF CacheHit(IMAGE_CACHE, tasks[i].url, now)
                    THEN [tasks EXCEPT ![i].pc = "memoize",
                                       ![i].content = IMAGE_CACHE[tasks[i].url].content]
                    ELSE [tasks EXCEPT ![i].pc = "get"]
        /\ UNCHANGED <<imgVars, clockVars, cardVars, pool, results, pageVars>>

\* requests.get returns or raises
Get ==
    \E i \in 1..Len(tasks) :
        \E resp \in Responses(tasks[i].url) :
            /\ Running(i)
            /\ tasks[i].pc = "get"
            /\ tasks' = IF ~resp.exc /\ resp.status = 200
                        THEN [tasks EXCEPT ![i].pc = "store", ![i].gets = 1,
                                           ![i].content = resp.body]
                        ELSE [tasks EXCEPT ![i].pc = "memoize", ![i].gets = 1]
            /\ UNCHANGED <<imgVars, clockVars, cardVars, pool, results, pageVars>>

\* IMAGE_CACHE[image_url] = (time.time(), response.content)
Store ==
    \E i \in 1..Len(tasks) :
        /\ Running(i)
        /\ tasks[i].pc = "store"
        /\ IMAGE_CACHE' = Put(IMAGE_CACHE, tasks[i].url,
                              [ts |-> now, content |-> tasks[i].content])
        /\ tasks' = [tasks EXCEPT ![i].pc = "memoize"]
        /\ UNCHANGED <<lru, DEFAULT_CARD_IMAGE, heap, held, touched, call, lastOk,
                       recency, clockVars, cardVars, pool, results, pageVars>>

\* cached_image_fetch returns into the lru_cache wrapper, which memoizes the value
\* unless another worker memoized the URL meanwhile; the worker then decodes
Memoize ==
    \E i \in 1..Len(tasks), regen \in BOOLEAN :
        /\ Running(i)
        /\ tasks[i].pc = "memoize"
        /\ regen \/ DEFAULT_CARD_IMAGE = NoRef
        /\ lru' = IF tasks[i].url \in LruKeys(lru) THEN lru
                  ELSE LruInsert(lru, tasks[i].url, tasks[i].content)
        /\ recency' = IF tasks[i].url \in LruKeys(lru) THEN recency
                      ELSE Used(recency, tasks[i].url)
        /\ tasks' = [tasks EXCEPT ![i].pc = "done",
                                  ![i].img = ImageOf(tasks[i].content, regen)]
        /\ UNCHANGED <<IMAGE_CACHE, DEFAULT_CARD_IMAGE, heap, held, touched, call,
                       lastOk, clockVars, cardVars, pool, results, pageVars>>

\* as_completed yields a finished future: results[url] = future.result()
Collect ==
    \E i \in 1..Len(tasks) :
        /\ Running(i)
        /\ tasks[i].pc = "done"
        /\ i \notin Yielded(tasks)
        /\ results' = Put(results, future_to_url(tasks, i), tasks[i].img)
        /\ tasks' = [tasks EXCEPT ![i].order = Cardinality(Yielded(tasks)) + 1]
        /\ UNCHANGED <<imgVars, clockVars, cardVars, pool, pageVars>>

\* every future was yielded: return results
Return ==
    /\ pool.phase = "running"
    /\ Yielded(tasks) = 1..Len(tasks)
    /\ pool' = [pool EXCEPT !.phase = "returned"]
    /\ UNCHANGED <<imgVars, clockVars, cardVars, tasks, results, pageVars>>

PoolInit ==
    /\ pool = [phase |-> "idle", variant |-> "none", cards |-> << >>, calls |-> 0,
               cache0 |-> << >>]
    /\ tasks = << >>
    /\ results = << >>

-----------------------------------------------------------------------------
(* The chat page, fleece.py *)

\* exchanges in one conversation, and archived conversations, in one behaviour
MaxExchanges == 2
MaxSessions == 1

\* what the user types, and what Conversation.run answers to it
Texts == {"q1", "q2"}
Replies(text) == IF text = "q1" THEN {"r1"} ELSE {"r2"}
\* the entities the chain extracts from a prompt into memory.entity_store
Entities(text) == IF text = "q1" THEN {"card"} ELSE {}
ChainRaises == "<raises>"

\* A string built from others is the sequence of its parts: "User:" + text is
\* <<"User:", text>>, and the empty string is << >>
Concat(a, b) == <<a, b>>
NEWLINE == "\n"

\* st.session_state: keys is the set of keys present, and the field of an absent
\* key holds no value that a read could return
InitKeys == {"generated", "past", "input", "stored_session"}
AbsentList == <<"<absent>">>
AbsentStr == "<absent>"
NoMemory == [entity_store |-> {"<absent>"}, buffer |-> AbsentList]
EmptySessionState ==
    [keys |-> {}, generated |-> AbsentList, past |-> AbsentList, input |-> AbsentStr,
     stored_session |-> AbsentList, entity_memory |-> NoMemory]

\* an initialisation that leaves the keys it finds missing
InitNothing(s) == s

\* an initialisation that assigns the defaults whether the key exists or not
InitOverwrite(s) ==
    [s EXCEPT !.keys = @ \cup InitKeys, !.generated = << >>, !.past = << >>,
              !.input = "", !.stored_session = << >>]

\* if "generated" not in st.session_state: st.session_state["generated"] = [] ...
init_session_state(s) ==
    [s EXCEPT !.keys = @ \cup InitKeys,
              !.generated = IF "generated" \in s.keys THEN @ ELSE << >>,
              !.past = IF "past" \in s.keys THEN @ ELSE << >>,
              !.input = IF "input" \in s.keys THEN @ ELSE "",
              !.stored_session = IF "stored_session" \in s.keys THEN @ ELSE << >>]

\* an archive in the order of the conversation, oldest first
SaveOldestFirst(past, generated, i) ==
    [j \in 1..(2 * i) |->
        IF j % 2 = 1 THEN Concat("User:", past[(j + 1) \div 2])
        ELSE Concat("Bot:", generated[j \div 2])]

\* for i in range(len(generated) - 1, -1, -1): save.append("User:" + past[i]);
\* save.append("Bot:" + generated[i])   -- the list of the 1-based exchanges i..1
RECURSIVE save(_, _, _)
save(past, generated, i) ==
    IF i = 0 THEN << >>
    ELSE <<Concat("User:", past[i]), Concat("Bot:", generated[i])>>
             \o save(past, generated, i - 1)

\* a new_chat that appends nothing to stored_session
NewChatNoArchive(s) ==
    [session |-> [s EXCEPT !.keys = @ \cup {"input"}, !.generated = << >>,
                           !.past = << >>, !.input = "",
                           !.entity_memory = [entity_store |-> {}, buffer |-> << >>]],
     raised |-> "none"]

\* a new_chat that leaves the entity memory as it is
NewChatKeepsMemory(s) ==
    [session |-> [s EXCEPT !.keys = @ \cup {"input"},
                           !.stored_session =
                               Append(@, save(s.past, s.generated, Len(s.generated))),
                           !.generated = << >>, !.past = << >>, !.input = ""],
     raised |-> "none"]

\* a new_chat that forgets to empty past
NewChatKeepsPast(s) ==
    [session |-> [s EXCEPT !.keys = @ \cup {"input"},
                           !.stored_session =
                               Append(@, save(s.past, s.generated, Len(s.generated))),
                           !.generated = << >>, !.input = "",
                           !.entity_memory = [entity_store |-> {}, buffer |-> << >>]],
     raised |-> "none"]

\* new_chat(): the session state it leaves and the exception that ended it
new_chat(s) ==
    IF ~({"generated", "past", "stored_session"} \subseteq s.keys)
    THEN \* st.session_state["generated"] at line 69, or ["stored_session"] at line
         \* 72 after the loop, raises before anything was assigned
         [session |-> s, raised |-> "KeyError"]
    ELSE LET s1 == [s EXCEPT !.keys = @ \cup {"input"},
                             !.stored_session =
                                 Append(@, save(s.past, s.generated, Len(s.generated))),
                             !.generated = << >>, !.past = << >>, !.input = ""]
         IN  IF "entity_memory" \notin s.keys
             THEN \* line 76: st.session_state.entity_memory raises
                  [session |-> s1, raised |-> "AttributeError"]
             ELSE [session |-> [s1 EXCEPT !.entity_memory =
                                    [entity_store |-> {}, buffer |-> << >>]],
                   raised |-> "none"]

\* the prompts and responses in the order of the conversation, oldest first
LinesOldestFirst(past, generated, i) ==
    [j \in 1..(2 * i) |->
        IF j % 2 = 1 THEN past[(j + 1) \div 2] ELSE generated[j \div 2]]

\* lines 177-181: download_str.append(past[i]); download_str.append(generated[i])
\* for i from the last exchange down to the first
RECURSIVE download_lines(_, _, _)
download_lines(past, generated, i) ==
    IF i = 0 THEN << >>
    ELSE <<past[i], generated[i]>> \o download_lines(past, generated, i - 1)

\* "\n".join(lines)
join(lines) ==
    [j \in 1..(IF lines = << >> THEN 0 ELSE 2 * Len(lines) - 1) |->
        IF j % 2 = 1 THEN lines[(j + 1) \div 2] ELSE NEWLINE]

\* a script that skips the initialisation block
ScriptNoInit(s, api, clear, out) ==
    [session |-> s, init |-> s, raised |-> "none", download |-> << >>,
     button |-> FALSE, clear_all |-> FALSE]

\* one run of the script: api is whether the API-KEY box holds a key, clear whether
\* the Clear-all checkbox is checked, out what Conversation.run does. init is the
\* session state after the initialisation block, download the string
\* download_str, button whether the Download button is rendered, clear_all
\* whether the Clear-all checkbox is
page_script(s, api, clear, out) ==
    LET s1 == init_session_state(s)
        s2 == IF api /\ "entity_memory" \notin s1.keys
              THEN [s1 EXCEPT !.keys = @ \cup {"entity_memory"},
                              !.entity_memory = [entity_store |-> {}, buffer |-> << >>]]
              ELSE s1
        user_input == s1.input
        raised == IF user_input = "" THEN "none"
                  ELSE IF ~api THEN "NameError"    \* Conversation is not defined
                  ELSE IF out = ChainRaises THEN "chain" ELSE "none"
        s3 == IF user_input # "" /\ raised = "none"
              THEN [s2 EXCEPT !.past = Append(@, user_input),
                              !.generated = Append(@, out),
                              !.entity_memory =
                                  [entity_store |->
                                       @.entity_store \cup Entities(user_input),
                                   buffer |-> @.buffer \o <<user_input, out>>]]
              ELSE s2
        download == join(download_lines(s3.past, s3.generated, Len(s3.generated)))
        offered == s3.stored_session # << >>
    IN  IF raised # "none"
        THEN [session |-> s3, init |-> s1, raised |-> raised, download |-> << >>,
              button |-> FALSE, clear_all |-> FALSE]
        ELSE [session |-> IF offered /\ clear
                          THEN [s3 EXCEPT !.keys = @ \ {"stored_session"},
                                          !.stored_session = AbsentList]
                          ELSE s3,
              init |-> s1, raised |-> "none", download |-> download,
              button |-> download # << >>, clear_all |-> offered]

\* what Conversation.run can do with the text in the box
Outcomes(text) == IF text \in Texts THEN Replies(text) \cup {ChainRaises} ELSE {"unused"}

NoChat ==
    [op |-> "none", callback |-> "unused", ran |-> FALSE, start |-> EmptySessionState,
     init |-> EmptySessionState, raised |-> "none", download |-> << >>,
     button |-> FALSE]

\* the script runs from session state s; cb is how the callback before it ended
RunScript(op, s, api, clear, cb) ==
    \E out \in Outcomes(init_session_state(s).input) :
        \E r \in {page_script(s, api, clear, out)} :
            /\ Len(r.session.past) <= MaxExchanges
            /\ session_state' = r.session
            /\ ui' = [page |-> "chat", api_key |-> api, widgets |-> TRUE,
                      clear_all |-> r.clear_all]
            /\ chat' = [op |-> op, callback |-> cb, ran |-> TRUE, start |-> s,
                        init |-> r.init, raised |-> r.raised,
                        download |-> r.download, button |-> r.button]

\* the chat page is opened, in a new browser session or coming from another page:
\* the API-KEY box is empty
OpenChat ==
    /\ ui.page # "chat"
    /\ RunScript("open", session_state, FALSE, FALSE, "unused")
    /\ UNCHANGED <<imgVars, clockVars, cardVars, poolVars, catalogVars>>

\* a rerun that changes no keyed widget: the Credit Cards or My Cards button, the
\* model selectbox, the browser's rerun
Rerun ==
    /\ ui.page = "chat"
    /\ RunScript("rerun", session_state, ui.api_key, FALSE, "unused")
    /\ UNCHANGED <<imgVars, clockVars, cardVars, poolVars, catalogVars>>

\* the user fills or empties the API-KEY box
EnterApiKey ==
    /\ ui.page = "chat" /\ ui.widgets
    /\ RunScript("api_key", session_state, ~ui.api_key, FALSE, "unused")
    /\ UNCHANGED <<imgVars, clockVars, cardVars, poolVars, catalogVars>>

\* the user changes the text of the input box, whose key is "input"
Submit ==
    \E text \in Texts \cup {""} :
        /\ ui.page = "chat" /\ ui.widgets
        /\ "input" \in session_state.keys
        /\ text # session_state.input
        /\ RunScript("submit", [session_state EXCEPT !.input = text], ui.api_key,
                     FALSE, "unused")
        /\ UNCHANGED <<imgVars, clockVars, cardVars, poolVars, catalogVars>>

\* the user checks Clear-all, which the last run rendered
ClearAll ==
    /\ ui.page = "chat" /\ ui.widgets /\ ui.clear_all
    /\ RunScript("clear_all", session_state, ui.api_key, TRUE, "unused")
    /\ UNCHANGED <<imgVars, clockVars, cardVars, poolVars, catalogVars>>

\* the user clicks New Chat: the callback new_chat runs, and the script after it
\* unless the callback raised
NewChat ==
    \E c \in {new_chat(session_state)} :
        /\ ui.page = "chat" /\ ui.widgets
        /\ Len(c.session.stored_session) <= MaxSessions
        /\ IF c.raised = "none"
           THEN RunScript("new_chat", c.session, ui.api_key, FALSE, "none")
           ELSE /\ session_state' = c.session
                /\ \E api \in {ui.api_key, FALSE} :
                       ui' = [page |-> "chat", api_key |-> api, widgets |-> FALSE,
                              clear_all |-> FALSE]
                /\ chat' = [NoChat EXCEPT !.op = "new_chat", !.callback = c.raised,
                                          !.start = session_state]
        /\ UNCHANGED <<imgVars, clockVars, cardVars, poolVars, catalogVars>>

\* the user goes to another page of the application: the widgets of the chat page
\* are not rendered there, and the state of a widget that is not rendered is dropped
VisitOtherPage ==
    /\ ui.page = "chat"
    /\ session_state' = [session_state EXCEPT !.keys = @ \ {"input"},
                                              !.input = AbsentStr]
    /\ ui' = [page |-> "other", api_key |-> FALSE, widgets |-> FALSE,
              clear_all |-> FALSE]
    /\ chat' = [NoChat EXCEPT !.op = "leave", !.start = session_state]
    /\ UNCHANGED <<imgVars, clockVars, cardVars, poolVars, catalogVars>>

ChatInit ==
    /\ session_state = EmptySessionState
    /\ ui = [page |-> "none", api_key |-> FALSE, widgets |-> FALSE, clear_all |-> FALSE]
    /\ chat = NoChat

-----------------------------------------------------------------------------
(* The Credit Cards page, pages/credit_cards.py *)

\* st.session_state.show_cards = 4, and show_cards += 4
InitialShowCards == 4
LoadMoreStep == 4

\* get_card_data(): the name and the annual fee of each card of the catalog
get_card_data ==
    <<[name |-> "Chase Sapphire Preferred", annual_fee |-> "$95"],
      [name |-> "American Express Gold", annual_fee |-> "$250"],
      [name |-> "Citi Double Cash", annual_fee |-> "$0"],
      [name |-> "Capital One Venture", annual_fee |-> "$95"],
      [name |-> "Discover it Cash Back", annual_fee |-> "$0"]>>

AnnualFeeOptions == {"$0", "$95", "$250"}
RewardTypeOptions == {"Cash Back", "Travel", "Dining", "Groceries", "All Purchases"}

\* filtered_cards = cards
filtered_cards(cards, fees, rewards) == cards

\* one run of the script: the cards it renders and whether it offers Load More
catalog_page(fees, rewards, show) ==
    LET cards == filtered_cards(get_card_data, fees, rewards)
        n == IF show = Unset THEN InitialShowCards ELSE show
    IN  [show_cards |-> n,
         shown |-> SubSeq(cards, 1, Min(n, Len(cards))),
         load_more |-> n < Len(cards)]

\* the spending profile of the form: the five sliders, at and around the
\* thresholds of the rules and within the range of each slider
Profiles ==
    [Travel : {0, 300, 301}, Dining : {0, 400, 401}, Groceries : {0, 500, 501},
     Gas : {0, 200, 201}, Other : {0, 600, 601, 1600, 1601, 5000}]
NoSpending == [Travel |-> 0, Dining |-> 0, Groceries |-> 0, Gas |-> 0, Other |-> 0]

\* total = sum(spending.values())
Total(spending) ==
    spending.Travel + spending.Dining + spending.Groceries + spending.Gas
        + spending.Other

\* rules that fire at their threshold already
RecommendAtThreshold(spending) ==
    LET total == Total(spending)
        primary ==
            IF spending.Travel >= 300
            THEN <<"Chase Sapphire Preferred", "Great for your travel spending!">>
            ELSE IF spending.Dining >= 400
            THEN <<"American Express Gold", "Perfect for your dining habits!">>
            ELSE IF spending.Groceries >= 500
            THEN <<"Blue Cash Preferred", "6% cash back on groceries!">>
            ELSE IF spending.Gas >= 200
            THEN <<"Wells Fargo Autograph", "Great for gas stations and travel!">>
            ELSE IF total >= 2000
            THEN <<"Citi Double Cash", "Solid 2% back on all your spending!">>
            ELSE <<"Discover it Cash Back", "Good all-around option!">>
    IN  IF total >= 3000 /\ primary[1] # "Citi Double Cash"
        THEN <<primary, <<"Citi Double Cash", "Good for all other spending categories">>>>
        ELSE <<primary>>

\* get_card_recommendations(spending): the list of (card_name, reason)
get_card_recommendations(spending) ==
    LET total == Total(spending)
        primary ==
            IF spending.Travel > 300
            THEN <<"Chase Sapphire Preferred", "Great for your travel spending!">>
            ELSE IF spending.Dining > 400
            THEN <<"American Express Gold", "Perfect for your dining habits!">>
            ELSE IF spending.Groceries > 500
            THEN <<"Blue Cash Preferred", "6% cash back on groceries!">>
            ELSE IF spending.Gas > 200
            THEN <<"Wells Fargo Autograph", "Great for gas stations and travel!">>
            ELSE IF total > 2000
            THEN <<"Citi Double Cash", "Solid 2% back on all your spending!">>
            ELSE <<"Discover it Cash Back", "Good all-around option!">>
    IN  IF total > 3000 /\ primary[1] # "Citi Double Cash"
        THEN <<primary, <<"Citi Double Cash", "Good for all other spending categories">>>>
        ELSE <<primary>>

NoCatalogView ==
    [ran |-> FALSE, shown |-> << >>, load_more |-> FALSE, submitted |-> FALSE,
     spending |-> NoSpending, recommendations |-> << >>]

CatalogRun(fees, rewards, show) ==
    \E r \in {catalog_page(fees, rewards, show)} :
        /\ annual_fee_filter' = fees
        /\ reward_type_filter' = rewards
        /\ show_cards' = r.show_cards
        /\ catalog_view' = [NoCatalogView EXCEPT !.ran = TRUE, !.shown = r.shown,
                                                 !.load_more = r.load_more]
        /\ UNCHANGED <<imgVars, clockVars, cardVars, poolVars, chatVars>>

\* the page is opened or redrawn
ViewCatalog ==
    \E show \in {show_cards} : CatalogRun(annual_fee_filter, reward_type_filter, show)

\* the user changes the selection of the Annual Fee multiselect
SelectAnnualFee ==
    \E fees \in SUBSET AnnualFeeOptions :
        /\ catalog_view.ran
        /\ fees # annual_fee_filter
        /\ CatalogRun(fees, reward_type_filter, show_cards)

\* the user changes the selection of the Reward Type multiselect
SelectRewardType ==
    \E rewards \in SUBSET RewardTypeOptions :
        /\ catalog_view.ran
        /\ rewards # reward_type_filter
        /\ CatalogRun(annual_fee_filter, rewards, show_cards)

\* the user clicks Load More Cards: show_cards += 4 and st.rerun()
LoadMore ==
    /\ catalog_view.load_more
    /\ CatalogRun(annual_fee_filter, reward_type_filter, show_cards + LoadMoreStep)

\* the user sets the sliders and submits the form: the script runs with
\* submitted true and lists the recommendations
GetRecommendations ==
    \E spending \in Profiles :
        \E r \in {catalog_page(annual_fee_filter, reward_type_filter, show_cards)} :
            /\ catalog_view.ran
            /\ show_cards' = r.show_cards
            /\ catalog_view' =
                   [ran |-> TRUE, shown |-> r.shown, load_more |-> r.load_more,
                    submitted |-> TRUE, spending |-> spending,
                    recommendations |-> get_card_recommendations(spending)]
            /\ UNCHANGED <<annual_fee_filter, reward_type_filter, imgVars, clockVars,
                           cardVars, poolVars, chatVars>>

CatalogInit ==
    /\ annual_fee_filter = AnnualFeeOptions
    /\ reward_type_filter = RewardTypeOptions
    /\ show_cards = Unset
    /\ catalog_view = NoCatalogView

-----------------------------------------------------------------------------
(* Specifications *)

ClockInit == now = 0 /\ ticks = 0

PageInit == ChatInit /\ CatalogInit

Init == ImgInit /\ ClockInit /\ CardInit /\ PoolInit /\ PageInit

\* the image cache under sequential callers, over time
Next ==
    \/ DisplayCardImage
    \/ Tick

Spec == Init /\ [][Next]_vars

\* callers that keep and draw on the images they were given
NextCopy ==
    \/ DisplayAndKeep
    \/ Mutate

SpecCopy == Init /\ [][NextCopy]_vars

\* the My Credit Cards page: one action per script run the user starts
InitCards == ImgIdle /\ ClockInit /\ CardInit /\ PoolInit /\ PageInit

NextCards ==
    \/ View
    \/ ChangeSort
    \/ AddCard
    \/ RemoveCard
    \/ EditDetails
    \/ SaveChanges
    \/ TickCards

SpecCards == InitCards /\ [][NextCards]_vars

\* the My Credit Cards page over two expiries of the load cache
NextStore ==
    \/ View
    \/ ChangeSort
    \/ AddCard
    \/ RemoveCard
    \/ EditDetails
    \/ SaveChanges
    \/ TickStore

SpecStore == InitCards /\ [][NextStore]_vars

\* the pages of My Cards, on a store that fills more than one page
InitPaging == ImgIdle /\ ClockInit /\ PagingInit /\ PoolInit /\ PageInit

NextPaging ==
    \/ View
    \/ NextPage
    \/ PrevPage
    \/ AddCard
    \/ RemoveCard

SpecPaging == InitPaging /\ [][NextPaging]_vars

\* one preload call and its workers, in every interleaving
NextPool ==
    \/ Preload
    \/ Lookup
    \/ CheckCache
    \/ Get
    \/ Store
    \/ Memoize
    \/ Collect
    \/ Return

SpecPool == Init /\ [][NextPool]_vars

\* the chat page: one action per interaction of the user
NextChat ==
    \/ OpenChat
    \/ Rerun
    \/ EnterApiKey
    \/ Submit
    \/ ClearAll
    \/ NewChat
    \/ VisitOtherPage

SpecChat == InitCards /\ [][NextChat]_vars

\* the Credit Cards page: one action per script run the user starts
NextCatalog ==
    \/ ViewCatalog
    \/ SelectAnnualFee
    \/ SelectRewardType
    \/ LoadMore

SpecCatalog == InitCards /\ [][NextCatalog]_vars

\* the recommendation form of the Credit Cards page
NextRecommend ==
    \/ ViewCatalog
    \/ LoadMore
    \/ GetRecommendations

SpecRecommend == InitCards /\ [][NextRecommend]_vars

-----------------------------------------------------------------------------
(* Claims about the image cache *)

CallMade == call.at >= 0
IsPlaceholder(img) ==
    /\ img.kind = "placeholder"
    /\ img.w = PlaceholderWidth
    /\ img.h = PlaceholderHeight
\* the call issued a GET that raised, timed out, was answered with another status
\* than 200, or was answered with bytes that are no image
FetchFailed ==
    /\ CallMade
    /\ call.gets = 1
    /\ (call.resp.exc \/ call.resp.status # 200 \/ ~CanDecode(call.resp.body))
PlaceholderAvailable == DEFAULT_CARD_IMAGE # NoRef \/ call.regen = "ok"

\* C1 as stated: whenever the fetch of the URL fails (error, timeout, non-200 or
\* undecodable bytes), display_card_image returns the non-null 340x220 placeholder
\* and raises nothing.
C1_AlwaysPlaceholder ==
    FetchFailed =>
        /\ ~call.raised
        /\ call.ref # NoRef
        /\ IsPlaceholder(call.img)

\* C1 amended: whenever the fetch of the URL fails, display_card_image raises
\* nothing and returns the 340x220 placeholder, unless the placeholder could be
\* generated neither at import nor on demand, and then it returns None.
C1_PlaceholderUnlessNoneAvailable ==
    FetchFailed =>
        /\ ~call.raised
        /\ PlaceholderAvailable => call.ref # NoRef /\ IsPlaceholder(call.img)
        /\ ~PlaceholderAvailable => call.ref = NoRef

C1_Witness ==
    /\ FetchFailed
    /\ call.url = ""
    /\ call.resp.exc
    /\ call.ref # NoRef
    /\ IsPlaceholder(call.img)

\* C2: a GET answered 200 with valid image bytes makes display_card_image return
\* the image decoded from those bytes, and a later call for the same URL less than
\* CACHE_EXPIRY seconds after that GET issues no GET and returns the image of the
\* same bytes.
C2_DecodedThenServedFromCache ==
    /\ (CallMade /\ call.gets = 1 /\ ~call.resp.exc /\ call.resp.status = 200
            /\ CanDecode(call.resp.body))
        => (call.ref # NoRef /\ call.img = DecodedImage(call.resp.body))
    /\ (CallMade /\ call.before # NoEntry /\ CanDecode(call.before.content)
            /\ call.at - call.before.ts < CACHE_EXPIRY)
        => (call.gets = 0 /\ call.ref # NoRef
            /\ call.img = DecodedImage(call.before.content))

C2_Witness ==
    /\ CallMade
    /\ call.before # NoEntry
    /\ CanDecode(call.before.content)
    /\ call.at - call.before.ts = CACHE_EXPIRY - 1
    /\ call.gets = 0
    /\ call.img = DecodedImage(call.before.content)

\* C3 as stated: a call for a URL more than CACHE_EXPIRY seconds after the GET that
\* cached it issues a new GET.
C3_ExpiredIsRefetched ==
    (CallMade /\ call.before # NoEntry /\ call.at - call.before.ts > CACHE_EXPIRY)
        => call.gets = 1

\* C5: display_card_image returns None only when the fetched content could not be
\* decoded, DEFAULT_CARD_IMAGE is None and the on-demand generation failed; when
\* DEFAULT_CARD_IMAGE is None and the on-demand generation succeeds, the call
\* returns a newly made 340x220 placeholder.
C5_NoneOnlyWhenAllFail ==
    CallMade =>
        /\ call.ref = NoRef =>
              /\ ~(Truthy(call.content) /\ CanDecode(call.content))
              /\ DEFAULT_CARD_IMAGE = NoRef
              /\ call.regen = "failed"
        /\ (DEFAULT_CARD_IMAGE = NoRef /\ call.regen # "failed"
                /\ ~(Truthy(call.content) /\ CanDecode(call.content))) =>
              /\ call.regen = "ok"
              /\ call.ref # NoRef
              /\ call.img = PlaceholderImage

C5_Witness ==
    /\ CallMade
    /\ DEFAULT_CARD_IMAGE = NoRef
    /\ call.regen = "ok"
    /\ call.img = PlaceholderImage

C5_WitnessNone ==
    /\ CallMade
    /\ call.ref = NoRef
    /\ call.regen = "failed"

\* C4: the placeholders returned by separate calls are separate objects: drawing
\* on one changes neither DEFAULT_CARD_IMAGE nor a placeholder another call
\* returned.
C4_PlaceholdersIndependent ==
    /\ DEFAULT_CARD_IMAGE # NoRef => heap[DefaultRef] = PlaceholderImage
    /\ \A s \in Slots :
          (held[s] # NoRef /\ ~touched[s]) => heap[held[s]].pix = "orig"
    /\ \A s, t \in Slots :
          (s # t /\ held[s] # NoRef /\ held[t] # NoRef) => held[s] # held[t]

C4_Witness ==
    \E s, t \in Slots :
        /\ s # t
        /\ held[s] # NoRef /\ held[t] # NoRef
        /\ heap[held[s]].kind = "placeholder" /\ heap[held[t]].kind = "placeholder"
        /\ touched[s] /\ heap[held[s]].pix = "drawn"
        /\ ~touched[t] /\ heap[held[t]].pix = "orig"

-----------------------------------------------------------------------------
(* Claims about the user-card store *)

RunSaved == run.saved = "ok" /\ run.reran

\* C6 as stated: a successful save_user_cards(cards) followed by load_user_cards()
\* gives back the sequence that was written, same records in the same order.
C6_SaveThenLoadRoundTrip ==
    RunSaved => lastLoad.ret = run.mutated /\ user_cards = run.mutated

\* what holds of C6: the sequence comes back whenever the load after the save
\* reads the file, which it does only after load_user_cards.clear()
C6_RoundTripWhenFileRead ==
    (RunSaved /\ lastLoad.state # "unread") =>
        lastLoad.state = "valid" /\ lastLoad.ret = run.mutated

C6_RoundTripReached ==
    RunSaved /\ lastLoad.state = "valid" /\ Len(lastLoad.ret) = 1

\* C7 as stated: from an empty store, one submission of the Add Card form followed
\* by the reload of the next page run shows exactly one entry, with the submitted
\* fields and a date_added.
C7_AddThenReloadShowsTheCard ==
    (run.op = "add" /\ run.fresh /\ RunSaved) =>
        /\ user_cards = <<run.card>>
        /\ displayed = <<run.card>>
        /\ \E inp \in FormInputs, i \in 1..Len(Dates) :
               run.card = [new_card(inp, 0) EXCEPT !.date_added = Dates[i]]

\* C8: a failed write is reported by save_user_cards, which returns False, raises
\* nothing and writes once; user_cards keeps the append, edit or removal, and the
\* success message, the cache clear and the rerun are skipped.
C8_FailedSaveKeepsMutation ==
    run.saved = "failed" =>
        /\ run.error
        /\ ~run.raised
        /\ run.writes = 1
        /\ user_cards = run.mutated
        /\ ~run.success
        /\ ~run.cleared
        /\ ~run.reran
        /\ run.op = "add" => run.mutated = Append(run.loaded, run.card)
        /\ run.op = "remove" => run.mutated = list_remove(run.loaded, run.card)

C8_Witness ==
    /\ run.saved = "failed"
    /\ run.op = "remove"
    /\ run.error
    /\ Len(run.loaded) = 1
    /\ user_cards = << >>
    /\ file.exists

\* C9 as stated: load_user_cards never raises and leaves the file as it is; it
\* returns an empty list when the file does not exist, and an empty list after
\* reporting the error when the file cannot be parsed.
C9_EmptyListWheneverFileBad ==
    lastLoad.state # "none" =>
        /\ ~lastLoad.raised
        /\ lastLoad.unchanged
        /\ lastLoad.found = "absent" => lastLoad.ret = << >>
        /\ lastLoad.found = "corrupt" => lastLoad.ret = << >> /\ lastLoad.error

\* C9 amended: load_user_cards never raises and leaves the file as it is; a call
\* that finds no result cached within the last 300 seconds returns an empty list
\* when the file does not exist, and an empty list after reporting the error when
\* the file cannot be parsed; any other call returns the cached result without
\* looking at the file.
C9_EmptyListWhenFileRead ==
    lastLoad.state # "none" =>
        /\ ~lastLoad.raised
        /\ lastLoad.unchanged
        /\ lastLoad.state # "unread" => lastLoad.state = lastLoad.found
        /\ lastLoad.state = "absent" => lastLoad.ret = << >> /\ ~lastLoad.error
        /\ lastLoad.state = "corrupt" => lastLoad.ret = << >> /\ lastLoad.error
        /\ lastLoad.state = "unread" =>
               /\ lastLoad.ret = loadCache.value
               /\ lastLoad.at - loadCache.at < LOAD_TTL

C9_Witness ==
    /\ lastLoad.state = "corrupt"
    /\ lastLoad.ret = << >>
    /\ lastLoad.error
    /\ file.exists

-----------------------------------------------------------------------------
(* Claims about the parallel preload *)

\* the distinct image URLs of the first max_cards cards, which for
\* preload_my_card_images are the non-empty ones
SubmittedUrls ==
    {pool.cards[i] : i \in 1..Min(Len(pool.cards), MaxPreloadCards)}
        \ (IF pool.variant = "my" THEN {""} ELSE {})

\* C10: in whatever order the workers finish, the dict returned by the preload has
\* exactly the distinct submitted URLs as keys, and maps each URL to the image
\* display_card_image produced for that URL, never to the image of another URL.
C10_ResultsKeyedByOwnUrl ==
    pool.phase = "returned" =>
        /\ DOMAIN results = SubmittedUrls
        /\ \A u \in DOMAIN results :
               /\ \E i \in 1..Len(tasks) : tasks[i].url = u /\ results[u] = tasks[i].img
               /\ results[u].kind = "decoded" => results[u].bytes \in Bodies(u)

\* the second future was yielded first, and the two URLs got different images
C10_Witness ==
    /\ pool.phase = "returned"
    /\ Len(tasks) = 2
    /\ tasks[1].order = 2
    /\ tasks[2].order = 1
    /\ tasks[1].url # tasks[2].url
    /\ results[tasks[1].url] # results[tasks[2].url]

\* the i-th worker got a 200 answer and executed the assignment to IMAGE_CACHE
Stored(i) ==
    /\ tasks[i].gets = 1
    /\ tasks[i].content # NoneBytes
    /\ tasks[i].pc \in {"memoize", "done"}

StoredUrls == {tasks[i].url : i \in {j \in 1..Len(tasks) : Stored(j)}}

\* C11: when the preload has returned, IMAGE_CACHE holds for every URL some worker
\* fetched with a 200 answer the whole pair (time, body) that one of the workers
\* fetching that URL wrote; the entries of all other URLs are the ones IMAGE_CACHE
\* held when the preload began, none lost; and every worker returned None or a
\* body served for its own URL.
C11_RaceIsBenign ==
    pool.phase = "returned" =>
        /\ StoredUrls \cup DOMAIN pool.cache0 = DOMAIN IMAGE_CACHE
        /\ \A u \in StoredUrls :
               \E i \in 1..Len(tasks) :
                   /\ Stored(i)
                   /\ tasks[i].url = u
                   /\ IMAGE_CACHE[u] = [ts |-> now, content |-> tasks[i].content]
        /\ \A u \in DOMAIN IMAGE_CACHE \ StoredUrls : IMAGE_CACHE[u] = pool.cache0[u]
        /\ \A i \in 1..Len(tasks) :
               tasks[i].content = NoneBytes \/ tasks[i].content \in Bodies(tasks[i].url)

\* two workers fetched the same URL, got different bodies and both stored theirs
C11_WitnessSameUrl ==
    /\ pool.phase = "returned"
    /\ Len(tasks) = 2
    /\ Stored(1) /\ Stored(2)
    /\ tasks[1].url = tasks[2].url
    /\ tasks[1].content # tasks[2].content

-----------------------------------------------------------------------------
(* Claims about the two layers of the image cache *)

\* a step of the image cache specification that is a call of display_card_image:
\* the clock stands still in it, and call' describes it
IsCall == now' = now

\* the memoized URL the wrapper used longest ago
LeastRecentlyUsed ==
    CHOOSE k \in LruKeys(lru) :
        \A i, j \in 1..Len(recency) :
            recency[i] = k /\ recency[j] \in LruKeys(lru) => i <= j

\* C12: the memo of lru_cache never holds more than maxsize URLs; a call for a
\* memoized URL returns the memoized value with no HTTP GET and leaves the set of
\* memoized URLs alone, however old the value is; a call for another URL memoizes
\* it, and when the memo is full evicts exactly the least recently used URL.
C12_MemoBoundedAndLru ==
    [][IsCall =>
          LET u == call'.url
          IN  /\ Len(lru') <= LruMaxsize
              /\ Cardinality(LruKeys(lru')) = Len(lru')
              /\ u \in LruKeys(lru) =>
                     /\ call'.gets = 0
                     /\ call'.from = "memo"
                     /\ call'.content = lru[LruIndex(lru, u)].val
                     /\ LruKeys(lru') = LruKeys(lru)
              /\ u \notin LruKeys(lru) =>
                     LruKeys(lru') =
                         IF Len(lru) = LruMaxsize
                         THEN (LruKeys(lru) \ {LeastRecentlyUsed}) \cup {u}
                         ELSE LruKeys(lru) \cup {u}]_vars

\* a body fetched more than CACHE_EXPIRY ago was returned from a full memo that
\* has evicted a URL
C12_Witness ==
    /\ call.from = "memo"
    /\ call.before # NoEntry
    /\ call.at - call.before.ts > CACHE_EXPIRY
    /\ call.content = call.before.content
    /\ Len(lru) = LruMaxsize
    /\ Len(recency) > Len(lru)

\* the GET of the call answered 200
Answered200(c) == c.gets = 1 /\ ~c.resp.exc /\ c.resp.status = 200

\* C19: a call of cached_image_fetch sets IMAGE_CACHE[url] to (now, body), and
\* returns the body, exactly when it issued a GET that answered 200, leaving every
\* other entry alone; a GET that raised, timed out or answered another status makes
\* the call return None with IMAGE_CACHE unchanged, an expired entry of the URL
\* included; and a call that issued no GET leaves IMAGE_CACHE unchanged.
C19_WritesExactlyOn200 ==
    [][IsCall =>
          LET c == call'
          IN  IF Answered200(c)
              THEN /\ DOMAIN IMAGE_CACHE' = DOMAIN IMAGE_CACHE \cup {c.url}
                   /\ IMAGE_CACHE'[c.url] = [ts |-> now, content |-> c.resp.body]
                   /\ \A u \in DOMAIN IMAGE_CACHE \ {c.url} :
                          IMAGE_CACHE'[u] = IMAGE_CACHE[u]
                   /\ c.content = c.resp.body
              ELSE /\ IMAGE_CACHE' = IMAGE_CACHE
                   /\ c.gets = 1 => c.content = NoneBytes /\ ~c.raised]_vars

\* the GET for a URL whose entry had expired failed, and the expired entry is
\* still stored
C19_Witness ==
    /\ call.gets = 1
    /\ ~Answered200(call)
    /\ call.content = NoneBytes
    /\ call.before # NoEntry
    /\ call.at - call.before.ts >= CACHE_EXPIRY
    /\ call.url \in DOMAIN IMAGE_CACHE
    /\ IMAGE_CACHE[call.url] = call.before

\* C20: no step removes a key from IMAGE_CACHE; an entry changes only when a GET
\* for its own URL answers 200, so that an expired entry stays as it is until then;
\* and a call is served from IMAGE_CACHE only when the entry is younger than
\* CACHE_EXPIRY seconds.
C20_LazyExpiry ==
    [][/\ DOMAIN IMAGE_CACHE \subseteq DOMAIN IMAGE_CACHE'
       /\ \A u \in DOMAIN IMAGE_CACHE :
              IMAGE_CACHE'[u] # IMAGE_CACHE[u] =>
                  IsCall /\ call'.url = u /\ Answered200(call')
       /\ IsCall /\ call'.from = "cache" =>
              /\ call'.url \in DOMAIN IMAGE_CACHE
              /\ now - IMAGE_CACHE[call'.url].ts < CACHE_EXPIRY
              /\ call'.content = IMAGE_CACHE[call'.url].content]_vars

\* an entry that had expired was overwritten by a successful fetch of its URL
C20_Witness ==
    /\ call.from = "get"
    /\ Answered200(call)
    /\ call.before # NoEntry
    /\ call.at - call.before.ts >= CACHE_EXPIRY
    /\ IMAGE_CACHE[call.url] = [ts |-> call.at, content |-> call.resp.body]
    /\ call.at > call.before.ts

-----------------------------------------------------------------------------
(* Claims about the chat page *)

\* the default the initialisation block gives a key
DefaultOf(k) == IF k = "input" THEN "" ELSE << >>

\* session state t has every key of the initialisation block, with the value it
\* had in s, or with its default when s did not have the key
InitialisedFrom(s, t) ==
    \A k \in InitKeys :
        /\ k \in t.keys
        /\ t[k] = IF k \in s.keys THEN s[k] ELSE DefaultOf(k)

\* C13 as stated: after a page run the four keys exist, a key that was missing
\* when the run began has its default, and a key that existed has the value it had.
C13_KeysAsInitialisedAfterRun ==
    chat.ran => InitialisedFrom(chat.start, session_state)

\* C13: right after the initialisation block of a page run the four keys exist, a
\* key that was missing when the run began has its default, a key that existed has
\* the value it had, and no other key was added, removed or changed.
C13_InitBlockCreatesMissingKeys ==
    chat.ran =>
        /\ InitialisedFrom(chat.start, chat.init)
        /\ chat.init.keys = chat.start.keys \cup InitKeys
        /\ chat.init.entity_memory = chat.start.entity_memory

\* a run that began with a conversation and an archive but without the key input
C13_Witness ==
    /\ chat.ran
    /\ "input" \notin chat.start.keys
    /\ chat.init.input = ""
    /\ chat.start.generated # << >>
    /\ chat.init.generated = chat.start.generated
    /\ chat.start.stored_session # << >>
    /\ "stored_session" \in chat.start.keys

\* the click on New Chat that the step is
NewChatClicked == chat'.op = "new_chat"

\* the last element of a list
Last(seq) == seq[Len(seq)]

\* a is the archive of the conversation (past, generated), newest exchange first
IsArchiveOf(a, past, generated) ==
    LET n == Len(generated)
    IN  /\ Len(a) = 2 * n
        /\ \A k \in 0..(n - 1) :
               /\ a[2 * k + 1] = Concat("User:", past[n - k])
               /\ a[2 * k + 2] = Concat("Bot:", generated[n - k])

\* C14: every call of new_chat appends to stored_session the archive of the
\* current conversation, newest exchange first: 2n elements, "User:" + past[n-1-k]
\* and "Bot:" + generated[n-1-k] at the (0-based) places 2k and 2k+1.
C14_ArchivesNewestFirst ==
    [][NewChatClicked =>
          /\ "stored_session" \in session_state'.keys
          /\ session_state'.stored_session # << >>
          /\ IsArchiveOf(Last(session_state'.stored_session), session_state.past,
                         session_state.generated)]_vars

\* C15: when new_chat has returned, generated and past are empty lists, input is
\* the empty string, and the entity memory has an empty entity_store and an empty
\* buffer.
C15_ReturnedNewChatClearsAll ==
    chat.op = "new_chat" /\ chat.callback = "none" =>
        /\ {"generated", "past", "input", "entity_memory"} \subseteq chat.start.keys
        /\ chat.start.generated = << >>
        /\ chat.start.past = << >>
        /\ chat.start.input = ""
        /\ chat.start.entity_memory = [entity_store |-> {}, buffer |-> << >>]

\* new_chat returned after a conversation that held text in the input box, two
\* exchanges and an entity in the memory
C15_Witness ==
    /\ chat.op = "new_chat"
    /\ chat.callback = "none"
    /\ session_state.generated = << >>
    /\ Len(Last(session_state.stored_session)) = 4
    /\ Last(session_state.stored_session)[1] = Concat("User:", "q1")

\* C16: every call of new_chat makes stored_session longer by exactly one, leaves
\* the archives it held where they were and as they were, and appends the empty
\* list when the conversation is empty.
C16_GrowsByExactlyOne ==
    [][NewChatClicked =>
          /\ "stored_session" \in session_state.keys
          /\ "stored_session" \in session_state'.keys
          /\ Len(session_state'.stored_session) = Len(session_state.stored_session) + 1
          /\ \A i \in 1..Len(session_state.stored_session) :
                 session_state'.stored_session[i] = session_state.stored_session[i]
          /\ session_state.generated = << >> =>
                 Last(session_state'.stored_session) = << >>]_vars

\* the string s is the newline-join of past[i], generated[i] from the newest
\* exchange to the oldest
IsDownloadOf(s, past, generated) ==
    LET n == Len(generated)
    IN  /\ Len(s) = IF n = 0 THEN 0 ELSE 4 * n - 1
        /\ \A k \in 0..(n - 1) :
               /\ s[4 * k + 1] = past[n - k]
               /\ s[4 * k + 2] = NEWLINE
               /\ s[4 * k + 3] = generated[n - k]
               /\ k < n - 1 => s[4 * k + 4] = NEWLINE

\* C17: in a run that reaches the Conversation expander, download_str is the
\* newline-join of past[i], generated[i] from the newest exchange down to the
\* oldest; it is empty and no Download button is offered when the conversation is
\* empty, and the button is offered otherwise.
C17_DownloadNewestFirst ==
    chat.ran /\ chat.raised = "none" =>
        /\ IsDownloadOf(chat.download, session_state.past, session_state.generated)
        /\ session_state.generated = << >> => chat.download = << >> /\ ~chat.button
        /\ chat.button <=> chat.download # << >>

\* the download of a conversation of two different exchanges
C17_Witness ==
    /\ chat.ran
    /\ chat.button
    /\ Len(session_state.generated) = 2
    /\ session_state.past[1] # session_state.past[2]
    /\ chat.download[1] = session_state.past[2]

\* a run rendered nothing for an empty conversation
C17_WitnessEmpty ==
    /\ chat.ran
    /\ chat.raised = "none"
    /\ session_state.generated = << >>
    /\ ~chat.button

-----------------------------------------------------------------------------
(* Claims about the Credit Cards page *)

\* the names of the cards the last run rendered
ShownNames == {catalog_view.shown[i].name : i \in 1..Len(catalog_view.shown)}

\* C18: the cards the Credit Cards page displays all have an annual fee selected
\* in the Annual Fee filter, and every catalog card with a selected fee is
\* displayed once Load More has brought the whole list in.
C18_DisplaysTheSelectedFees ==
    catalog_view.ran =>
        /\ \A i \in 1..Len(catalog_view.shown) :
               catalog_view.shown[i].annual_fee \in annual_fee_filter
        /\ ~catalog_view.load_more =>
               \A j \in 1..Len(get_card_data) :
                   get_card_data[j].annual_fee \in annual_fee_filter =>
                       get_card_data[j].name \in ShownNames

-----------------------------------------------------------------------------
(* Claims about the fallback chain *)

\* C21: a call of display_card_image issues no HTTP GET when the memo of lru_cache
\* or IMAGE_CACHE serves it, and exactly one otherwise, whether that GET answered
\* 200, answered another status, or raised.
C21_AtMostOneGet ==
    CallMade =>
        /\ call.gets \in {0, 1}
        /\ call.from \in {"memo", "cache"} => call.gets = 0
        /\ call.from = "get" => call.gets = 1

\* a call whose only GET raised, and which went on to the placeholder
C21_Witness ==
    /\ CallMade
    /\ call.gets = 1
    /\ call.resp.exc
    /\ call.content = NoneBytes
    /\ IsPlaceholder(call.img)

\* the memo of lru_cache holds None for url
MemoizedNone(url) ==
    /\ url \in LruKeys(lru)
    /\ lru[LruIndex(lru, url)].val = NoneBytes

\* a call whose GET failed leaves None memoized for its URL
FailureIsMemoized ==
    call'.gets = 1 /\ ~Answered200(call') =>
        /\ call'.content = NoneBytes
        /\ call'.url \in LruKeys(lru')
        /\ lru'[LruIndex(lru', call'.url)].val = NoneBytes

\* C29 as stated: a failed fetch is memoized, and every later call for a URL whose
\* failure is still memoized issues no GET and returns the placeholder.
C29_MemoizedFailureGivesPlaceholder ==
    [][IsCall =>
          /\ FailureIsMemoized
          /\ MemoizedNone(call'.url) =>
                 /\ call'.gets = 0
                 /\ IsPlaceholder(call'.img)]_vars

\* C29: a failed fetch is memoized, and every later call for a URL whose failure
\* is still memoized issues no GET and gets None from cached_image_fetch, so that
\* display_card_image returns the placeholder when the pre-generated one exists
\* or the on-demand generation succeeds, and None otherwise.
C29_MemoizedFailureSkipsGet ==
    [][IsCall =>
          /\ FailureIsMemoized
          /\ MemoizedNone(call'.url) =>
                 /\ call'.gets = 0
                 /\ call'.from = "memo"
                 /\ call'.content = NoneBytes
                 /\ IF DEFAULT_CARD_IMAGE # NoRef \/ call'.regen = "ok"
                    THEN IsPlaceholder(call'.img)
                    ELSE call'.ref = NoRef /\ call'.img = NoImage]_vars

\* a memoized failure answered a call made after the clock advanced, with the
\* placeholder
C29_Witness ==
    /\ CallMade
    /\ call.from = "memo"
    /\ call.content = NoneBytes
    /\ call.gets = 0
    /\ call.at > 0
    /\ IsPlaceholder(call.img)

-----------------------------------------------------------------------------
(* Claims about the conversation of the chat page *)

\* past and generated, once they exist, pair every prompt with a reply to it
Paired(s) ==
    {"generated", "past"} \subseteq s.keys =>
        /\ Len(s.past) = Len(s.generated)
        /\ \A i \in 1..Len(s.generated) : s.generated[i] \in Replies(s.past[i])

\* C27: in every state past and generated have the same length and generated[i]
\* is a reply to past[i]; and every interaction leaves both lists as they were
\* (among others when the chain raises, or new_chat raises before line 73),
\* appends one prompt and its reply to them, or empties both.
C27_PastAndGeneratedPaired ==
    /\ Paired(session_state)
    /\ [][/\ Paired(session_state')
          /\ LET p == session_state.past
                 g == session_state.generated
                 p2 == session_state'.past
                 g2 == session_state'.generated
             IN  \/ p2 = p /\ g2 = g
                 \/ /\ "past" \notin session_state.keys
                    /\ p2 = << >> /\ g2 = << >>
                 \/ /\ chat'.ran /\ chat'.raised = "none"
                    /\ Len(p2) = Len(p) + 1 /\ Len(g2) = Len(g) + 1
                    /\ SubSeq(p2, 1, Len(p)) = p /\ SubSeq(g2, 1, Len(g)) = g
                    /\ Last(p2) = chat'.start.input
                 \/ /\ chat'.op = "new_chat"
                    /\ p2 = << >> /\ g2 = << >>]_vars

\* the chain raised in a run that began with two exchanges, and both are still there
C27_Witness ==
    /\ chat.ran
    /\ chat.raised = "chain"
    /\ Len(session_state.past) = 2
    /\ Len(session_state.generated) = 2
    /\ session_state.past[1] # session_state.past[2]

\* C28: every click on New Chat ends without an exception, with the conversation
\* archived in stored_session and generated, past and input empty.
C28_NewChatNeverRaises ==
    chat.op = "new_chat" =>
        /\ chat.callback = "none"
        /\ {"generated", "past", "input", "stored_session"} \subseteq chat.start.keys
        /\ chat.start.generated = << >>
        /\ chat.start.past = << >>
        /\ chat.start.input = ""
        /\ chat.start.stored_session # << >>

-----------------------------------------------------------------------------
(* Claims about the recommendations *)

\* the rules of the primary recommendation, in their order: whether the rule
\* matches the profile, and the card it names
PrimaryRules(sp) ==
    <<[match |-> sp.Travel > 300, card |-> "Chase Sapphire Preferred"],
      [match |-> sp.Dining > 400, card |-> "American Express Gold"],
      [match |-> sp.Groceries > 500, card |-> "Blue Cash Preferred"],
      [match |-> sp.Gas > 200, card |-> "Wells Fargo Autograph"],
      [match |-> Total(sp) > 2000, card |-> "Citi Double Cash"],
      [match |-> TRUE, card |-> "Discover it Cash Back"]>>

\* the card of the first rule that matches
FirstMatch(sp) ==
    LET rules == PrimaryRules(sp)
        i == CHOOSE k \in 1..Len(rules) :
                 rules[k].match /\ \A j \in 1..(k - 1) : ~rules[j].match
    IN  rules[i].card

\* C23: for every spending profile submitted, the list of recommendations begins
\* with the card of the first matching rule in the order travel > 300, dining >
\* 400, groceries > 500, gas > 200, total > 2000, otherwise Discover it Cash
\* Back; Citi Double Cash follows as a second entry if and only if total > 3000
\* and the first card is not Citi Double Cash; and there is no third entry, so
\* the names in the list are distinct.
C23_FirstMatchingRule ==
    catalog_view.submitted =>
        LET sp == catalog_view.spending
            recs == catalog_view.recommendations
        IN  /\ Len(recs) \in {1, 2}
            /\ recs[1][1] = FirstMatch(sp)
            /\ Len(recs) = 2 <=>
                   Total(sp) > 3000 /\ FirstMatch(sp) # "Citi Double Cash"
            /\ Len(recs) = 2 =>
                   recs[2][1] = "Citi Double Cash" /\ recs[1][1] # recs[2][1]

\* travel exactly at its threshold lets the dining rule choose, and the total
\* brings the second recommendation
C23_Witness ==
    /\ catalog_view.submitted
    /\ catalog_view.spending.Travel = 300
    /\ catalog_view.spending.Dining = 401
    /\ Len(catalog_view.recommendations) = 2
    /\ catalog_view.recommendations[1][1] = "American Express Gold"

\* a total above 3000 with Citi Double Cash as the primary gives a single entry
C23_WitnessSingle ==
    /\ catalog_view.submitted
    /\ Total(catalog_view.spending) > 3000
    /\ Len(catalog_view.recommendations) = 1
    /\ catalog_view.recommendations[1][1] = "Citi Double Cash"


-----------------------------------------------------------------------------
(* Claims about removing, editing and keeping cards on My Credit Cards *)

\* a script run of the page that pressed a button of the given kind (the clock
\* stands still during a run)
IsRun(op) == run'.op = op /\ now' = now
Persisted(f) == read_cards(f).ret
Readable(f) == ~read_cards(f).error

\* C22: a Remove Card whose save succeeds removes exactly that card: the file
\* written and the list the next load_user_cards returns are the list persisted
\* before the click without that card, the others kept in their order.
C22_RemovesExactlyThatCard ==
    [][(IsRun("remove") /\ run'.saved = "ok" /\ Readable(file)) =>
          /\ Persisted(file') = list_remove(Persisted(file), run'.card)
          /\ lastLoad'.ret = list_remove(Persisted(file), run'.card)]_vars

\* C24: Save Changes updates the card selected with Edit Details, the one whose
\* values pre-fill the form, and no other card, whatever the sort order and
\* whatever happened since the selection; edit_index is a valid index of the
\* card list when the form is saved.
C24_SaveUpdatesSelectedCard ==
    [][(IsRun("edit") /\ edit.set) =>
          /\ ~run'.raised
          /\ edit.index + 1 <= Len(run'.loaded)
          /\ run'.loaded[edit.index + 1] = edit.card
          /\ \A j \in 1..Len(run'.loaded) :
                 j # edit.index + 1 => run'.mutated[j] = run'.loaded[j]]_vars

\* C25: no update is lost: every successful add, edit and remove changes the
\* persisted list by that one operation only, so that the file holds every card
\* added and not removed, with its latest values, in the order of addition.
C25_NoLostUpdates ==
    [][(now' = now /\ run'.saved = "ok" /\ Readable(file)) =>
          /\ IsRun("add") => Persisted(file') = Append(Persisted(file), run'.card)
          /\ IsRun("remove") =>
                 Persisted(file') = list_remove(Persisted(file), run'.card)
          /\ IsRun("edit") =>
                 /\ Len(Persisted(file')) = Len(Persisted(file))
                 /\ \E j \in 1..Len(Persisted(file)) :
                        Persisted(file') = [Persisted(file) EXCEPT ![j] = run'.card]]_vars


\* C26: the page of My Cards stays in range: whenever the card list of a run is
\* not empty, 0 <= cards_page and cards_page * 3 < number of cards, so that the
\* run shows between one and three cards.
C26_PageStaysInRange ==
    (run.op # "none" /\ displayed # << >>) =>
        /\ 0 <= cards_page
        /\ cards_page * cards_per_page < Len(displayed)
        /\ Cardinality(Shown(displayed, cards_page)) \in 1..cards_per_page

====
